---- MODULE Spec2Model ----
(***************************************************************************)
(* Model of IF-Image-Demo.ipynb: the Record Adapter                        *)
(* (ImageEmbeddingDataset), the DataLoader driven embedding loop, the      *)
(* Result Writer and the RO-Crate provenance registration, executed as the *)
(* notebook executes them: cell after cell, an uncaught exception ending   *)
(* the run.                                                                *)
(***************************************************************************)
EXTENDS Integers, Sequences, FiniteSets, TLC

----------------------------------------------------------------------------
(* Bounds of the explored inputs.                                          *)
MaxRecords == 3     \* longest Record sequence of the enumerated inputs
MaxCap     == 3     \* largest enumerated max_images
MaxBatch   == 3     \* largest enumerated batch_size
EmbedDim   == 2     \* vector length of the embedding network (1024 in the demo)

(* Program constants.                                                      *)
ImageSize      == 224
DemoMaxImages  == 10
DemoBatchSize  == 16

----------------------------------------------------------------------------
(* Python values.  A bytes value is represented by the text it decodes to  *)
(* (only valid UTF-8 is enumerated), so bytes and str of the same text are *)
(* different values and decoding is not the identity.                      *)
None       == [t |-> "none"]
PyStr(s)   == [t |-> "str", v |-> s]
PyBytes(s) == [t |-> "bytes", v |-> s]
PyInt(n)   == [t |-> "int", n |-> n]
(* A path is a str or bytes value whose text is a sequence of components.  *)
PathStr(parts)   == [t |-> "str", parts |-> parts]
PathBytes(parts) == [t |-> "bytes", parts |-> parts]

(* Python truthiness, as used by `if max_images and ...` and               *)
(* `if image_path and ...`.                                                *)
Truthy(value) ==
    CASE value.t = "none" -> FALSE
      [] value.t = "int"  -> value.n # 0
      [] "parts" \in DOMAIN value -> value.parts # <<>>
      [] OTHER -> value.v # ""

isinstance_bytes(value) == value.t = "bytes"

(* bytes.decode('utf-8') *)
decode(value) == PyStr(value.v)

(* str(value) *)
str(value) ==
    CASE value.t = "str"   -> value
      [] value.t = "int"   -> PyStr(ToString(value.n))
      [] value.t = "none"  -> PyStr("None")
      [] value.t = "bytes" -> PyStr("b'" \o value.v \o "'")

(* safe_decode without its None branch. *)
safe_decode_NoneAsText(value, default) ==
    IF isinstance_bytes(value) THEN decode(value) ELSE str(value)

safe_decode(value, default) ==
    IF isinstance_bytes(value) THEN decode(value)
    ELSE IF value = None THEN default
    ELSE str(value)

----------------------------------------------------------------------------
(* The local filesystem the notebook reads: which image files exist, and   *)
(* whether PIL can decode them (px identifies the pixel content, 0 being   *)
(* all black).                                                             *)
DemoNames ==
    << "f01.png", "f02.png", "f03.png", "f04.png", "f05.png",
       "f06.png", "f07.png", "f08.png", "f09.png", "f10.png" >>

FileSystem ==
    { [parts |-> <<"green", "a.png">>, ok |-> TRUE,  px |-> 1, size |-> 512],
      [parts |-> <<"blue", "a.png">>,  ok |-> TRUE,  px |-> 2, size |-> 512],
      [parts |-> <<"green", "c.png">>, ok |-> TRUE,  px |-> 0, size |-> 224],
      [parts |-> <<"green", "b.png">>, ok |-> FALSE, px |-> 0, size |-> 0] }
    \cup { [parts |-> <<"demo", DemoNames[i]>>, ok |-> TRUE, px |-> i, size |-> 512]
           : i \in 1..Len(DemoNames) }

(* os.path.exists(image_path) *)
exists(image_path) == \E f \in FileSystem : f.parts = image_path.parts

(* os.path.basename(image_path): same type as the path *)
basename(image_path) ==
    [t |-> image_path.t, v |-> image_path.parts[Len(image_path.parts)]]

File(image_path) == CHOOSE f \in FileSystem : f.parts = image_path.parts

----------------------------------------------------------------------------
(* Records of the dataset loader: record.get(prefix/field) is the field's  *)
(* value, None when the field is absent.                                   *)
MetaKeys == << "treatment", "plate", "well", "channel",
               "hpa_antibody_id", "ensembl_id", "ark" >>
MetaKeySet == { MetaKeys[i] : i \in 1..Len(MetaKeys) }

Record(path, treatment, plate, well, channel, hpa, ensembl, ark) ==
    [full_path |-> path, treatment |-> treatment, plate |-> plate,
     well |-> well, channel |-> channel, hpa_antibody_id |-> hpa,
     ensembl_id |-> ensembl, ark |-> ark]

RecordPool ==
    { Record(PathStr(<<"green", "a.png">>), PyStr("Vorinostat"), PyInt(1),
             PyStr("A10"), None, PyStr("HPA029069"), PyStr("ENSG1"), PyStr("ark:1")),
      Record(PathBytes(<<"blue", "a.png">>), PyBytes("Paclitaxel"), PyInt(1),
             PyBytes("G11"), PyBytes("blue"), PyBytes("HPA029069"), PyBytes("ENSG1"),
             PyBytes("ark:1")),
      Record(PathStr(<<"green", "b.png">>), PyStr("untreated"), PyInt(2),
             PyStr("E10"), PyStr("green"), None, None, None),
      Record(PathBytes(<<"green", "c.png">>), PyBytes("untreated"), PyInt(0),
             PyStr(""), PyBytes(""), PyStr("HPA2"), PyInt(7), PyStr("ark:2")),
      Record(PathStr(<<"green", "gone.png">>), PyStr("Vorinostat"), PyInt(3),
             PyStr("D4"), PyStr("red"), PyStr("HPA3"), PyStr("ENSG3"), PyStr("ark:3")),
      Record(None, PyStr("Vorinostat"), PyInt(3), PyStr("D4"), None, None, None,
             PyStr("ark:4")),
      Record(PathStr(<<>>), PyBytes("untreated"), None, None, None, None, None,
             None) }

DemoRecord(i) ==
    Record(PathBytes(<<"demo", DemoNames[i]>>), PyBytes("Vorinostat"), PyInt(1),
           PyBytes("A10"), None, PyBytes("HPA029069"), PyBytes("ENSG1"), None)

(* The demo scenarios: ten Records with valid local paths, and the same    *)
(* ten with the path of one pointing to a missing file.                    *)
DemoRecords == [i \in 1..Len(DemoNames) |-> DemoRecord(i)]
DemoRecordsOneMissing ==
    [DemoRecords EXCEPT ![4].full_path = PathBytes(<<"demo", "gone.png">>)]

SeqsUpTo(S, n) == UNION { [1..k -> S] : k \in 0..n }

Inputs ==
    [records : SeqsUpTo(RecordPool, MaxRecords),
     max_images : {None} \cup { PyInt(m) : m \in 0..MaxCap },
     batch_size : 1..MaxBatch,
     transform : BOOLEAN]
    \cup
    [records : {DemoRecords, DemoRecordsOneMissing},
     max_images : {None, PyInt(DemoMaxImages)},
     batch_size : {DemoBatchSize},
     transform : {TRUE}]

----------------------------------------------------------------------------
VARIABLES
    pc,               \* position of the notebook run
    error,            \* the uncaught exception that ended the run, "none" if none
    records,          \* all_records
    max_images,       \* max_images argument of ImageEmbeddingDataset
    batch_size,       \* batch_size argument of DataLoader
    transform,        \* TRUE iff a transform is passed to the dataset
    image_paths,      \* self.image_paths
    image_ids,        \* self.image_ids
    metadata,         \* self.metadata
    batch_idx,        \* number of batches the loop has consumed
    batch,            \* (images, image_ids, metadata_batch) of the current batch
    fetched,          \* history: the index lists of the batches formed so far
    model_calls,      \* history: number of invocations of model(images)
    embeddings_list,
    image_ids_list,
    metadata_list,
    embedding_dim,
    embeddings_df,
    metadata_df,
    written,          \* output files: path -> content
    crate,
    notebook_software,
    source_image_arks,
    embedding_computation,
    embedding_dataset_component

inputVars   == << records, max_images, batch_size, transform >>
datasetVars == << image_paths, image_ids, metadata >>
loopVars    == << batch_idx, batch, fetched, model_calls,
                  embeddings_list, image_ids_list, metadata_list >>
saveVars    == << embedding_dim, embeddings_df, metadata_df >>
crateVars   == << crate, notebook_software, source_image_arks,
                  embedding_computation, embedding_dataset_component >>

vars == << pc, error, inputVars, datasetVars, loopVars, saveVars, written,
           crateVars >>

----------------------------------------------------------------------------
(* ImageEmbeddingDataset.__init__: the loop over enumerate(records).       *)
EmptyDataset == [image_paths |-> <<>>, image_ids |-> <<>>, metadata |-> <<>>]

RecordMetadata(record) ==
    [k \in MetaKeySet |-> safe_decode(record[k], PyStr(""))]

(* The identifier taken from the first path component, not the last. *)
RecordImageId_Dirname(image_path) ==
    LET image_id == [t |-> image_path.t, v |-> image_path.parts[1]]
    IN  IF isinstance_bytes(image_id) THEN decode(image_id) ELSE image_id

RecordImageId(image_path) ==
    LET image_id == basename(image_path)
    IN  IF isinstance_bytes(image_id) THEN decode(image_id) ELSE image_id

CapReached(cap, accepted) == Truthy(cap) /\ accepted >= cap.n

(* The acceptance test without os.path.exists. *)
Resolvable_NoExistsCheck(record) == Truthy(record.full_path)

Resolvable(record) ==
    Truthy(record.full_path) /\ exists(record.full_path)

RECURSIVE InitLoop(_, _, _, _)
InitLoop(recs, cap, i, self) ==
    IF i > Len(recs) THEN self
    ELSE IF CapReached(cap, Len(self.image_paths)) THEN self
    ELSE IF Resolvable(recs[i])
         THEN InitLoop(recs, cap, i + 1,
                 [image_paths |-> Append(self.image_paths, recs[i].full_path),
                  image_ids   |-> Append(self.image_ids,
                                         RecordImageId(recs[i].full_path)),
                  metadata    |-> Append(self.metadata,
                                         RecordMetadata(recs[i]))])
         ELSE InitLoop(recs, cap, i + 1, self)

DatasetInit ==
    /\ pc = "dataset_init"
    /\ LET self == InitLoop(records, max_images, 1, EmptyDataset)
       IN  /\ image_paths' = self.image_paths
           /\ image_ids' = self.image_ids
           /\ metadata' = self.metadata
    /\ pc' = "loop"
    /\ UNCHANGED << error, inputVars, loopVars, saveVars, written, crateVars >>

----------------------------------------------------------------------------
(* ImageEmbeddingDataset.__getitem__ *)
PIL(px, size) == [kind |-> "PIL", mode |-> "RGB", size |-> size, px |-> px]

(* Image.open(image_path).convert('RGB') raises unless the file is there    *)
(* and decodes.                                                            *)
CanOpen(image_path) == exists(image_path) /\ File(image_path).ok
Image_open(image_path) == PIL(File(image_path).px, File(image_path).size)

(* Image.new('RGB', (224, 224), (0, 0, 0)) *)
Image_new == PIL(0, ImageSize)

(* transforms.Compose([Resize, ToTensor, Normalize]) *)
ApplyTransform(image) ==
    [kind |-> "tensor", channels |-> 3, size |-> ImageSize,
     px |-> image.px, normalized |-> TRUE]

(* torch.zeros(3, 224, 224) *)
torch_zeros ==
    [kind |-> "tensor", channels |-> 3, size |-> ImageSize,
     px |-> 0, normalized |-> FALSE]

(* The placeholder never passed through the transform. *)
Placeholder_Untransformed(tf) == torch_zeros

Placeholder(tf) == IF tf THEN ApplyTransform(Image_new) ELSE torch_zeros

getitem(idx) ==
    LET image_path == image_paths[idx]
        image_id == image_ids[idx]
        meta == metadata[idx]
        image == IF CanOpen(image_path)
                 THEN IF transform THEN ApplyTransform(Image_open(image_path))
                      ELSE Image_open(image_path)
                 ELSE Placeholder(transform)
    IN  << image, image_id, meta >>

len_dataset == Len(image_paths)

----------------------------------------------------------------------------
(* DataLoader(embedding_dataset, batch_size, shuffle=False, num_workers=0) *)
Min(a, b) == IF a < b THEN a ELSE b

(* The sequential batch sampler: the indices of batch number b (from 0);   *)
(* first a sampler that forgets the offset of the batch.                   *)
BatchIndices_NoOffset(b, B, N) == [j \in 1..Min(B, N - b * B) |-> j]

BatchIndices(b, B, N) == [j \in 1..Min(B, N - b * B) |-> b * B + j]

len_dataloader == (len_dataset + batch_size - 1) \div batch_size

(* default_collate stacks tensors and fails on anything else.              *)
Collatable(samples) ==
    \A i \in 1..Len(samples) : samples[i][1].kind = "tensor"

default_collate(samples) ==
    [images |-> [i \in 1..Len(samples) |-> samples[i][1]],
     image_ids |-> [i \in 1..Len(samples) |-> samples[i][2]],
     metadata_batch |->
        [k \in MetaKeySet |-> [i \in 1..Len(samples) |-> samples[i][3][k]]]]

Samples(indices) == [j \in 1..Len(indices) |-> getitem(indices[j])]

(* The DenseNet embedder: one vector per tensor, a function of the tensor. *)
model_forward(image) ==
    [j \in 1..EmbedDim |->
        100 * j + 2 * image.px + (IF image.normalized THEN 1 ELSE 0)]

model(images) == [i \in 1..Len(images) |-> model_forward(images[i])]

(* The per-item dictionaries rebuilt from the collated metadata; first a   *)
(* rebuild giving every item the metadata of the batch's first item.       *)
IndividualMetadata_FirstOnly(metadata_batch) ==
    LET n == Len(metadata_batch[MetaKeys[1]])
    IN  [i \in 1..n |-> [k \in MetaKeySet |-> metadata_batch[k][1]]]

IndividualMetadata(metadata_batch) ==
    LET n == Len(metadata_batch[MetaKeys[1]])
    IN  [i \in 1..n |-> [k \in MetaKeySet |-> metadata_batch[k][i]]]

(* next(dataloader): the next batch is fetched and collated.               *)
LoaderNext ==
    /\ pc = "loop"
    /\ batch_idx * batch_size < len_dataset
    /\ LET indices == BatchIndices(batch_idx, batch_size, len_dataset)
       IN  /\ Collatable(Samples(indices))
           /\ batch' = default_collate(Samples(indices))
           /\ fetched' = Append(fetched, indices)
    /\ pc' = "embed"
    /\ UNCHANGED << error, inputVars, datasetVars, batch_idx, model_calls,
                    embeddings_list, image_ids_list, metadata_list,
                    saveVars, written, crateVars >>

(* next(dataloader) raising out of default_collate.                        *)
LoaderCollateError ==
    /\ pc = "loop"
    /\ batch_idx * batch_size < len_dataset
    /\ ~ Collatable(Samples(BatchIndices(batch_idx, batch_size, len_dataset)))
    /\ pc' = "aborted"
    /\ error' = "TypeError"
    /\ UNCHANGED << inputVars, datasetVars, loopVars, saveVars, written,
                    crateVars >>

(* The dataloader is exhausted: the for loop ends.                         *)
LoaderStop ==
    /\ pc = "loop"
    /\ batch_idx * batch_size >= len_dataset
    /\ pc' = "save"
    /\ UNCHANGED << error, inputVars, datasetVars, loopVars, saveVars,
                    written, crateVars >>

(* The loop body when model(images) returns.                               *)
EmbedBatch ==
    /\ pc = "embed"
    /\ LET embeddings == model(batch.images)
       IN  embeddings_list' = embeddings_list \o embeddings
    /\ image_ids_list' = image_ids_list \o batch.image_ids
    /\ metadata_list' = metadata_list \o IndividualMetadata(batch.metadata_batch)
    /\ model_calls' = model_calls + 1
    /\ batch_idx' = batch_idx + 1
    /\ pc' = "loop"
    /\ UNCHANGED << error, inputVars, datasetVars, batch, fetched, saveVars,
                    written, crateVars >>

(* The loop body when model(images) raises: nothing catches it; first a   *)
(* loop that swallows the exception and goes on.                           *)
EmbedRaises_Swallowed ==
    /\ pc = "embed"
    /\ model_calls' = model_calls + 1
    /\ batch_idx' = batch_idx + 1
    /\ pc' = "loop"
    /\ error' = "EmbedError"
    /\ UNCHANGED << inputVars, datasetVars, batch, fetched,
                    embeddings_list, image_ids_list, metadata_list,
                    saveVars, written, crateVars >>

EmbedRaises ==
    /\ pc = "embed"
    /\ model_calls' = model_calls + 1
    /\ pc' = "aborted"
    /\ error' = "EmbedError"
    /\ UNCHANGED << inputVars, datasetVars, batch_idx, batch, fetched,
                    embeddings_list, image_ids_list, metadata_list,
                    saveVars, written, crateVars >>

----------------------------------------------------------------------------
(* The Result Writer (cell "6. Save Embeddings to Files").                 *)
output_dir == "./densenet_embeddings"
embeddings_file == output_dir \o "/" \o "image_embeddings.tsv"

(* np.array(embeddings_list).shape: (0,) for an empty list, else (n, k);   *)
(* first an array that keeps two dimensions when the list is empty.        *)
array_shape_EmptyIsTwoDim(list) ==
    IF list = <<>> THEN << 0, 0 >> ELSE << Len(list), Len(list[1]) >>

array_shape(list) ==
    IF list = <<>> THEN << 0 >> ELSE << Len(list), Len(list[1]) >>

(* The dim columns numbered from 1. *)
dim_columns_OneBased(k) == [i \in 1..k |-> "dim_" \o ToString(i)]

dim_columns(k) == [i \in 1..k |-> "dim_" \o ToString(i - 1)]

(* pd.DataFrame(embeddings_array, columns=...) with image_id inserted at 0 *)
EmbeddingsFrame(ids, vectors, k) ==
    [columns |-> << "image_id" >> \o dim_columns(k),
     rows |-> [i \in 1..Len(vectors) |-> << ids[i] >> \o vectors[i]]]

(* The text of one cell of the frame: the image_id column holds strings,   *)
(* the dim columns hold numbers.                                           *)
CellText(column, cell) ==
    IF column = "image_id" THEN cell.v ELSE ToString(cell)

TAB == "\t"

RECURSIVE JoinCells(_, _)
JoinCells(cells, sep) ==
    IF cells = <<>> THEN <<>>
    ELSE IF Len(cells) = 1 THEN << cells[1] >>
    ELSE << cells[1], sep >> \o JoinCells(Tail(cells), sep)

(* DataFrame.to_csv(path, sep='\t', index=False): the header line and one  *)
(* line per row, the cells of a line separated by sep.                     *)
to_csv(df, sep) ==
    << JoinCells(df.columns, sep) >>
    \o [i \in 1..Len(df.rows) |->
          JoinCells([j \in 1..Len(df.rows[i]) |->
                       CellText(df.columns[j], df.rows[i][j])], sep)]

(* metadata_rows: {'image_id': ...} updated with the item's metadata       *)
MetadataRows(ids, metas) ==
    [i \in 1..Len(metas) |-> [k \in MetaKeySet \cup {"image_id"} |->
                                 IF k = "image_id" THEN ids[i] ELSE metas[i][k]]]

(* embeddings_array.shape[1] raises IndexError when no vector was collected *)
SaveEmbeddingsFails ==
    /\ pc = "save"
    /\ Len(array_shape(embeddings_list)) < 2
    /\ pc' = "aborted"
    /\ error' = "IndexError"
    /\ UNCHANGED << inputVars, datasetVars, loopVars, saveVars, written,
                    crateVars >>

SaveEmbeddings ==
    /\ pc = "save"
    /\ Len(array_shape(embeddings_list)) >= 2
    /\ LET k == array_shape(embeddings_list)[2]
           df == EmbeddingsFrame(image_ids_list, embeddings_list, k)
       IN  /\ embedding_dim' = k
           /\ embeddings_df' = df
           /\ written' = written @@ (embeddings_file :> to_csv(df, TAB))
    /\ metadata_df' = [rows |-> MetadataRows(image_ids_list, metadata_list)]
    /\ pc' = "rocrate"
    /\ UNCHANGED << error, inputVars, datasetVars, loopVars, crateVars >>

----------------------------------------------------------------------------
(* The RO-Crate registration (cell "7. Create and Register an RO-Crate").  *)
rocrate_path == "densenet_embeddings"
notebook_name == "IF-Image-Demo.ipynb"

(* Series.unique().tolist(): the distinct values in order of appearance.   *)
RECURSIVE unique(_)
unique(seq) ==
    IF seq = <<>> THEN <<>>
    ELSE LET front == unique(SubSeq(seq, 1, Len(seq) - 1))
             last == seq[Len(seq)]
         IN  IF \E i \in 1..Len(front) : front[i] = last
             THEN front ELSE Append(front, last)

Column(df, key) == [i \in 1..Len(df.rows) |-> df.rows[i][key]]

software_params ==
    [guid |-> "ark:59852/embedding-notebook",
     name |-> "Jupyter Notebook for Embedding Generation",
     fileFormat |-> "application/x-ipynb+json",
     filepath |-> "./densenet_embeddings/" \o notebook_name,
     cratePath |-> rocrate_path]

computation_params(software, arks) ==
    [guid |-> "ark:59852/embedding-computation",
     name |-> "Image Embedding Generation Computation",
     usedSoftware |-> << software.guid >>,
     usedDataset |-> arks]

(* The output dataset said to be generated by the software, not by the     *)
(* computation.                                                            *)
dataset_params_GeneratedBySoftware(computation, arks) ==
    [guid |-> "ark:59852/embedding-vectors",
     name |-> "Image Embedding Vectors (TSV)",
     format |-> "text/tab-separated-values",
     filepath |-> "./densenet_embeddings/" \o "image_embeddings.tsv",
     derivedFrom |-> arks,
     generatedBy |-> << software_params.guid >>,
     cratePath |-> rocrate_path]

dataset_params(computation, arks) ==
    [guid |-> "ark:59852/embedding-vectors",
     name |-> "Image Embedding Vectors (TSV)",
     format |-> "text/tab-separated-values",
     filepath |-> "./densenet_embeddings/" \o "image_embeddings.tsv",
     derivedFrom |-> arks,
     generatedBy |-> << computation.guid >>,
     cratePath |-> rocrate_path]

(* GenerateROCrate with crate_params, then the notebook is copied in.     *)
GenerateROCrate ==
    /\ pc = "rocrate"
    /\ crate' = [guid |-> "ark:59852/demo-if-embedding-rocrate",
                 path |-> rocrate_path, elements |-> <<>>]
    /\ written' = written @@
                    ((rocrate_path \o "/" \o notebook_name) :> << notebook_name >>)
    /\ pc' = "software"
    /\ UNCHANGED << error, inputVars, datasetVars, loopVars, saveVars,
                    notebook_software, source_image_arks,
                    embedding_computation, embedding_dataset_component >>

GenerateSoftware ==
    /\ pc = "software"
    /\ notebook_software' = software_params
    /\ pc' = "computation"
    /\ UNCHANGED << error, inputVars, datasetVars, loopVars, saveVars, written,
                    crate, source_image_arks, embedding_computation,
                    embedding_dataset_component >>

GenerateComputation ==
    /\ pc = "computation"
    /\ source_image_arks' = unique(Column(metadata_df, "ark"))
    /\ embedding_computation' =
          computation_params(notebook_software, source_image_arks')
    /\ pc' = "dataset"
    /\ UNCHANGED << error, inputVars, datasetVars, loopVars, saveVars, written,
                    crate, notebook_software, embedding_dataset_component >>

GenerateDataset ==
    /\ pc = "dataset"
    /\ embedding_dataset_component' =
          dataset_params(embedding_computation, source_image_arks)
    /\ pc' = "append"
    /\ UNCHANGED << error, inputVars, datasetVars, loopVars, saveVars, written,
                    crate, notebook_software, source_image_arks,
                    embedding_computation >>

AppendCrate ==
    /\ pc = "append"
    /\ crate' = [crate EXCEPT !.elements =
                    @ \o << notebook_software, embedding_computation,
                            embedding_dataset_component >>]
    /\ pc' = "done"
    /\ UNCHANGED << error, inputVars, datasetVars, loopVars, saveVars, written,
                    notebook_software, source_image_arks,
                    embedding_computation, embedding_dataset_component >>

----------------------------------------------------------------------------
Init ==
    /\ \E in \in Inputs :
          /\ records = in.records
          /\ max_images = in.max_images
          /\ batch_size = in.batch_size
          /\ transform = in.transform
    /\ pc = "dataset_init"
    /\ error = "none"
    /\ image_paths = <<>>
    /\ image_ids = <<>>
    /\ metadata = <<>>
    /\ batch_idx = 0
    /\ batch = None
    /\ fetched = <<>>
    /\ model_calls = 0
    /\ embeddings_list = <<>>
    /\ image_ids_list = <<>>
    /\ metadata_list = <<>>
    /\ embedding_dim = 0
    /\ embeddings_df = None
    /\ metadata_df = None
    /\ written = <<>>
    /\ crate = None
    /\ notebook_software = None
    /\ source_image_arks = <<>>
    /\ embedding_computation = None
    /\ embedding_dataset_component = None

Next ==
    \/ DatasetInit
    \/ LoaderNext
    \/ LoaderCollateError
    \/ LoaderStop
    \/ EmbedBatch
    \/ EmbedRaises
    \/ SaveEmbeddingsFails
    \/ SaveEmbeddings
    \/ GenerateROCrate
    \/ GenerateSoftware
    \/ GenerateComputation
    \/ GenerateDataset
    \/ AppendCrate

Spec == Init /\ [][Next]_vars
----------------------------------------------------------------------------
(* Properties.  Their vocabulary is stated on the inputs and the file      *)
(* system directly, not through the operators of the adapter.              *)

Constructed == pc # "dataset_init"

(* The Record has an image path and the file is on the local filesystem.   *)
HasLocalImage(record) ==
    /\ record.full_path # None
    /\ record.full_path.parts # <<>>
    /\ \E f \in FileSystem : f.parts = record.full_path.parts

ResolvableRecords == SelectSeq(records, HasLocalImage)

PathsOf(recs) == [i \in 1..Len(recs) |-> recs[i].full_path]

N_items == Len(image_paths)

(* C1: with no cap the adapter accepts exactly the Records whose image     *)
(* path is present and whose file exists, one item per such Record and in  *)
(* Record order; the other Records are skipped and nothing is raised.      *)
C1_AcceptsExactlyResolvable ==
    (Constructed /\ max_images = None) =>
        /\ image_paths = PathsOf(ResolvableRecords)
        /\ Len(image_ids) = Len(ResolvableRecords)
        /\ Len(metadata) = Len(ResolvableRecords)
        /\ (pc = "loop" /\ batch_idx = 0 => error = "none")

(* Ten Records, one of them with a missing file, give nine items.          *)
C1_Witness ==
    /\ pc = "loop"
    /\ max_images = None
    /\ records = DemoRecordsOneMissing
    /\ Len(records) = 10
    /\ Len(image_paths) = 9
    /\ error = "none"

(* C2 as stated: with max_images = m >= 0 the adapter accepts exactly the  *)
(* first min(m, R) resolvable Records, so never more than m.               *)
C2_CapFirstMinMR ==
    (Constructed /\ max_images # None) =>
        /\ image_paths =
              SubSeq(PathsOf(ResolvableRecords), 1,
                     Min(max_images.n, Len(ResolvableRecords)))
        /\ Len(image_paths) <= max_images.n

----------------------------------------------------------------------------
(* The embedding loop has run to its end (the dataloader was exhausted).   *)
LoopCompleted ==
    \/ pc \in {"save", "rocrate", "software", "computation", "dataset",
               "append", "done"}
    \/ (pc = "aborted" /\ error = "IndexError")

(* The least c with c * B >= N. *)
CeilDiv(N, B) == CHOOSE c \in 0..N : c * B >= N /\ (c = 0 \/ (c - 1) * B < N)

RECURSIVE Flatten(_)
Flatten(seqs) ==
    IF seqs = <<>> THEN <<>> ELSE seqs[1] \o Flatten(Tail(seqs))

(* The file of the item cannot be opened or decoded. *)
Undecodable(image_path) ==
    ~ \E f \in FileSystem : f.parts = image_path.parts /\ f.ok

(* C3: after the loop completes the collected outputs are in input order,  *)
(* without reordering, duplication or loss: position i holds the           *)
(* identifier, the embedding and the metadata of the i-th Indexed Item.    *)
C3_OutputsInInputOrder ==
    LoopCompleted =>
        /\ Len(image_ids_list) = N_items
        /\ Len(embeddings_list) = N_items
        /\ Len(metadata_list) = N_items
        /\ \A i \in 1..N_items :
              /\ image_ids_list[i] = image_ids[i]
              /\ embeddings_list[i] = model_forward(getitem(i)[1])
              /\ metadata_list[i] = metadata[i]

(* Three items in batches of two: a full batch and a shorter last one.     *)
C3_Witness ==
    /\ pc = "save"
    /\ N_items = 3
    /\ batch_size = 2
    /\ Len(embeddings_list) = 3
    /\ image_ids_list = image_ids
    /\ metadata_list[1] # metadata_list[2]

(* C4: ceil(N/B) consecutive batches in original order, each of size B     *)
(* except possibly the last, the model invoked exactly once per batch, and *)
(* each batch embedded before the next one is formed.                      *)
C4_BatchesAndCalls ==
    /\ Len(fetched) - model_calls \in {0, 1}
    /\ (Len(fetched) = model_calls + 1) <=> (pc = "embed")
    /\ \A b \in 1..Len(fetched) :
          /\ Len(fetched[b]) >= 1
          /\ Len(fetched[b]) <= batch_size
          /\ (b < Len(fetched) => Len(fetched[b]) = batch_size)
    /\ Flatten(fetched) = [i \in 1..Len(Flatten(fetched)) |-> i]
    /\ LoopCompleted =>
          /\ Len(fetched) = CeilDiv(N_items, batch_size)
          /\ model_calls = CeilDiv(N_items, batch_size)
          /\ Flatten(fetched) = [i \in 1..N_items |-> i]

C4_Witness ==
    /\ pc = "save"
    /\ N_items = 3
    /\ batch_size = 2
    /\ model_calls = 2
    /\ fetched = << <<1, 2>>, <<3>> >>

(* C5: an accepted item whose image cannot be opened or decoded does not   *)
(* make item access raise: the batch holds for it the black 224x224        *)
(* 3-channel placeholder, passed through the transform when one is set,    *)
(* with the item's own identifier and metadata; a collate failure is never *)
(* due to such items alone, and a completed run has one row for the item.  *)
C5_PlaceholderForBadImage ==
    /\ pc = "embed" =>
          LET indices == fetched[Len(fetched)]
          IN  \A j \in 1..Len(indices) :
                 Undecodable(image_paths[indices[j]]) =>
                    /\ batch.images[j] =
                          [kind |-> "tensor", channels |-> 3, size |-> 224,
                           px |-> 0, normalized |-> transform]
                    /\ batch.image_ids[j] = image_ids[indices[j]]
                    /\ \A k \in MetaKeySet :
                          batch.metadata_batch[k][j] = metadata[indices[j]][k]
    /\ error = "TypeError" =>
          \E i \in 1..N_items : ~ Undecodable(image_paths[i])
    /\ LoopCompleted =>
          /\ Len(embeddings_list) = N_items
          /\ \A i \in 1..N_items :
                Undecodable(image_paths[i]) =>
                   /\ image_ids_list[i] = image_ids[i]
                   /\ embeddings_list[i] =
                         [d \in 1..EmbedDim |->
                             100 * d + (IF transform THEN 1 ELSE 0)]

C5_Witness ==
    /\ pc = "save"
    /\ transform
    /\ N_items >= 2
    /\ \E i \in 1..N_items : Undecodable(image_paths[i])
    /\ \E i \in 1..N_items : ~ Undecodable(image_paths[i])
    /\ Len(embeddings_list) = N_items

(* C6: when model(images) raises on a batch the run is aborted with that   *)
(* error: the batch is not retried, no later batch is embedded, no row is  *)
(* added for the failed batch, and neither the Result Writer nor the       *)
(* provenance registration is reached.                                     *)
EmbedFailureState ==
    error = "EmbedError" =>
        /\ pc = "aborted"
        /\ model_calls = batch_idx + 1
        /\ Len(fetched) = model_calls
        /\ Len(embeddings_list) = batch_idx * batch_size
        /\ Len(image_ids_list) = batch_idx * batch_size
        /\ Len(metadata_list) = batch_idx * batch_size
        /\ written = <<>>
        /\ embeddings_df = None
        /\ crate = None
        /\ notebook_software = None
        /\ embedding_computation = None
        /\ embedding_dataset_component = None

C6_EmbedErrorIsFatal ==
    /\ []EmbedFailureState
    /\ [][error = "EmbedError" => FALSE]_vars

C6_Witness ==
    /\ error = "EmbedError"
    /\ pc = "aborted"
    /\ batch_idx = 1
    /\ N_items = 3
    /\ Len(embeddings_list) = batch_size
----------------------------------------------------------------------------
(* Reading a line of the table back: the fields between the tabs.          *)
WellFormedLine(line) ==
    /\ Len(line) % 2 = 1
    /\ \A p \in 1..Len(line) : (line[p] = "\t") <=> (p % 2 = 0)

Fields(line) == [f \in 1..((Len(line) + 1) \div 2) |-> line[2 * f - 1]]

EmbeddingsTable == written[embeddings_file]

IsDemoRun ==
    /\ records = DemoRecords
    /\ max_images = PyInt(10)
    /\ batch_size = 16

(* C7: the embeddings table has the header image_id, dim_0 .. dim_{k-1}    *)
(* (1 + k columns) and exactly n data rows, the i-th holding the           *)
(* identifier and the vector of the i-th Embedding Row; the demo run of 10 *)
(* Records, max_images=10, batch_size=16 gives 1 batch, 10 rows.           *)
C7_TableShape ==
    embeddings_file \in DOMAIN written =>
        LET n == Len(embeddings_list)
            k == Len(embeddings_list[1])
        IN  /\ n >= 1
            /\ Len(EmbeddingsTable) = n + 1
            /\ \A l \in 1..(n + 1) : WellFormedLine(EmbeddingsTable[l])
            /\ Fields(EmbeddingsTable[1]) =
                  [c \in 1..(1 + k) |->
                      IF c = 1 THEN "image_id" ELSE "dim_" \o ToString(c - 2)]
            /\ \A i \in 1..n :
                  Fields(EmbeddingsTable[i + 1]) =
                     [c \in 1..(1 + k) |->
                         IF c = 1 THEN image_ids_list[i].v
                         ELSE ToString(embeddings_list[i][c - 1])]
            /\ IsDemoRun =>
                  /\ Len(fetched) = 1
                  /\ model_calls = 1
                  /\ n = 10
                  /\ Len(EmbeddingsTable) = 1 + 10
                  /\ Len(Fields(EmbeddingsTable[1])) = 1 + EmbedDim

C7_Witness ==
    /\ pc = "done"
    /\ IsDemoRun
    /\ embeddings_file \in DOMAIN written
    /\ Len(EmbeddingsTable) = 11
    /\ Len(Fields(EmbeddingsTable[11])) = 1 + EmbedDim

(* The last component of a path, as text. *)
BasenameText(image_path) == PyStr(image_path.parts[Len(image_path.parts)])

IdsAreBasenames ==
    Constructed =>
        /\ Len(image_ids) = Len(image_paths)
        /\ \A i \in 1..Len(image_paths) :
              /\ image_ids[i] = BasenameText(image_paths[i])
              /\ getitem(i)[2] = image_ids[i]
        /\ pc = "embed" =>
              \A j \in 1..Len(batch.image_ids) :
                 batch.image_ids[j] =
                    BasenameText(image_paths[fetched[Len(fetched)][j]])

(* C8: after construction image_ids[i] is the file basename of             *)
(* image_paths[i] (as text: a bytes basename is decoded), the pairing is   *)
(* never changed afterwards and item access returns that identifier.       *)
C8_IdIsBasename ==
    /\ []IdsAreBasenames
    /\ [][Constructed =>
             (image_ids' = image_ids /\ image_paths' = image_paths)]_vars

C8_Witness ==
    /\ pc = "embed"
    /\ N_items >= 2
    /\ \E i \in 1..N_items : image_paths[i].t = "bytes"
    /\ \E i \in 1..N_items : image_paths[i].t = "str"
    /\ image_ids[1] = image_ids[2]
    /\ image_paths[1] # image_paths[2]

(* The one coercion of a metadata value to text. *)
CoercedText(value) ==
    CASE value.t = "bytes" -> PyStr(value.v)
      [] value.t = "none"  -> PyStr("")
      [] value.t = "str"   -> PyStr(value.v)
      [] value.t = "int"   -> PyStr(ToString(value.n))

(* C9: each of the seven metadata fields of an accepted Record is a string *)
(* obtained by one coercion: bytes are decoded, None becomes the empty     *)
(* string, any other value becomes its string representation; no metadata  *)
(* value is ever a non-string.                                             *)
C9_MetadataCoerced ==
    Constructed =>
        /\ \A i \in 1..Len(metadata) :
              /\ DOMAIN metadata[i] = MetaKeySet
              /\ Cardinality(DOMAIN metadata[i]) = 7
              /\ \A k \in MetaKeySet :
                    /\ metadata[i][k].t = "str"
                    /\ metadata[i][k] = CoercedText(ResolvableRecords[i][k])
        /\ \A i \in 1..Len(metadata_list) :
              \A k \in MetaKeySet : metadata_list[i][k].t = "str"

C9_Witness ==
    /\ pc = "save"
    /\ \E i \in 1..Len(metadata) :
          /\ ResolvableRecords[i].ark = None
          /\ ResolvableRecords[i].plate = PyInt(2)
          /\ metadata[i].ark = PyStr("")
          /\ metadata[i].plate = PyStr("2")
    /\ \E i \in 1..Len(metadata) :
          /\ ResolvableRecords[i].treatment = PyBytes("Paclitaxel")
          /\ metadata_list[i].treatment = PyStr("Paclitaxel")

(* The distinct provenance ids of the embedded images. *)
DistinctArks == { metadata_list[i].ark : i \in 1..Len(metadata_list) }

(* C10 as stated: the registration of the computation carries its inputs   *)
(* (the distinct provenance ids of the embedded images) and its outputs    *)
(* (the embeddings table the run produced).                                *)
C10_ComputationInputsAndOutputs ==
    pc \in {"dataset", "append", "done"} =>
        /\ { embedding_computation.usedDataset[i] :
                i \in 1..Len(embedding_computation.usedDataset) } = DistinctArks
        /\ "generated" \in DOMAIN embedding_computation
        /\ embedding_computation.generated = << embeddings_file >>
----------------------------------------------------------------------------
ProvenanceOrder ==
    /\ crate # None => embeddings_file \in DOMAIN written
    /\ notebook_software # None =>
          /\ crate # None
          /\ embeddings_file \in DOMAIN written
          /\ notebook_software.guid = "ark:59852/embedding-notebook"
    /\ embedding_computation # None =>
          /\ notebook_software # None
          /\ embedding_computation.usedSoftware = << notebook_software.guid >>
          /\ embedding_computation.usedDataset = source_image_arks
    /\ embedding_dataset_component # None =>
          /\ embedding_computation # None
          /\ embedding_dataset_component.generatedBy =
                << embedding_computation.guid >>
          /\ embedding_dataset_component.derivedFrom =
                embedding_computation.usedDataset
    /\ (crate # None /\ crate.elements # <<>>) =>
          /\ notebook_software # None
          /\ embedding_computation # None
          /\ embedding_dataset_component # None
          /\ crate.elements = << notebook_software, embedding_computation,
                                 embedding_dataset_component >>

(* An artifact, once created, is not created again or changed. *)
ProvenanceSteps ==
    /\ notebook_software # None => notebook_software' = notebook_software
    /\ embedding_computation # None =>
          embedding_computation' = embedding_computation
    /\ embedding_dataset_component # None =>
          embedding_dataset_component' = embedding_dataset_component
    /\ (embedding_computation = None /\ embedding_computation' # None) =>
          embedding_dataset_component' = None
    /\ (notebook_software = None /\ notebook_software' # None) =>
          embedding_computation' = None

(* C11: software, computation and dataset are created in this order, after *)
(* the embeddings table is written; the computation's used software is the *)
(* software's identifier, the dataset's generated-by is the computation's  *)
(* identifier, its derived-from list is the computation's input list, and  *)
(* the three are appended to the package only after all three exist.       *)
C11_ProvenanceOrderAndLinks ==
    /\ []ProvenanceOrder
    /\ [][ProvenanceSteps]_vars

C11_Witness ==
    /\ pc = "done"
    /\ Len(crate.elements) = 3
    /\ Len(source_image_arks) >= 2
    /\ embedding_dataset_component.generatedBy = << "ark:59852/embedding-computation" >>
    /\ embedding_computation.usedSoftware = << "ark:59852/embedding-notebook" >>

(* The save step has completed successfully. *)
SaveCompleted ==
    pc \in {"rocrate", "software", "computation", "dataset", "append", "done"}

(* C12 as stated: after the save step both the embeddings table and the    *)
(* image_id + metadata table have been saved to TSV files.                 *)
C12_EmbeddingsAndMetadataSaved ==
    SaveCompleted =>
        /\ embeddings_file \in DOMAIN written
        /\ \E f \in DOMAIN written :
              /\ f # embeddings_file
              /\ f # rocrate_path \o "/" \o notebook_name

NothingProduced ==
    /\ model_calls = 0
    /\ fetched = <<>>
    /\ embeddings_list = <<>>
    /\ image_ids_list = <<>>
    /\ metadata_list = <<>>
    /\ written = <<>>
    /\ embeddings_df = None
    /\ crate = None
    /\ notebook_software = None
    /\ embedding_computation = None
    /\ embedding_dataset_component = None

ZeroItemsState ==
    (Constructed /\ N_items = 0) =>
        /\ NothingProduced
        /\ pc \in {"loop", "save", "aborted"}
        /\ (pc = "aborted" => error = "IndexError")

(* C13: when the adapter accepts zero items the model is never invoked,    *)
(* the collected outputs stay empty, and the Result Writer fails with an   *)
(* error while determining the vector dimension, before any embeddings     *)
(* TSV is written and before any provenance artifact is registered.        *)
C13_ZeroItemsWriterFails ==
    /\ []ZeroItemsState
    /\ [][(pc = "save" /\ N_items = 0) =>
             (pc' = "aborted" /\ error' = "IndexError")]_vars

C13_Witness ==
    /\ pc = "aborted"
    /\ error = "IndexError"
    /\ Len(records) >= 2
    /\ N_items = 0
    /\ NothingProduced
====
